---- MODULE Spec2Model ----
(***************************************************************************)
(* Model of the SoLoud Nintendo 3DS homebrew output backend                *)
(* (src/backend/n3ds_homebrew/soloud_n3ds_homebrew.cpp).                   *)
(*                                                                         *)
(* Three execution contexts are interleaved statement by statement:        *)
(*   - the caller (main) thread, which runs n3ds_homebrew_init and         *)
(*     n3ds_cleanup;                                                       *)
(*   - the audio thread n3ds_thread created by threadCreate;               *)
(*   - the NDSP side: the channel-0 wave buffer queue and the sound frame  *)
(*     callback n3ds_audioCallback.                                        *)
(*                                                                         *)
(* The model follows in detail the session that mBackendData refers to.    *)
(* A session whose pointer is overwritten by a later n3ds_homebrew_init    *)
(* is unreachable from then on (nothing signals its event again); it is    *)
(* kept as a count in `orphans`.                                           *)
(*                                                                         *)
(* Undefined behaviour in the source is a nondeterministic choice between  *)
(* a crash of the process and carrying on:                                 *)
(*   - line 158 writes through data->wavebufs[i], which memset left NULL;  *)
(*   - line 94 passes the address of a member array to free();             *)
(*   - the callback registered on line 170 is never unregistered, so it    *)
(*     can run on a deleted N3Data, where data->done reads as anything.    *)
(* Where the process carries on, the two wave buffer descriptors behave    *)
(* as the two records that N3Data::wavebufs declares.                      *)
(*                                                                         *)
(* NDSP itself is not part of the source.  It plays the wave buffers of    *)
(* channel 0 in the order they were added, marks a finished one            *)
(* NDSP_WBUF_DONE, and calls the sound frame callback afterwards, at most  *)
(* MaxCallbacksPerCompletion times per finished buffer.  The source never  *)
(* calls LightEvent_Init: whether the zero-filled event counts as          *)
(* signalled is left open when a session is created.                       *)
(***************************************************************************)
EXTENDS Integers, Sequences, FiniteSets, TLC

\* ---------------------------------------------------------------- bounds
\* How many sound-frame callbacks NDSP may deliver for one finished buffer.
MaxCallbacksPerCompletion == 2
\* Saturation value of the submission counter nSubmitted.
MaxCount == 3
\* How many sessions may be overwritten by a repeated init.
MaxOrphans == 1
\* Largest aBuffer tried where the buffer size is what matters.
MaxBuffer == 3
\* Largest caller priority tried where the priority is what matters.
MaxPriority == 70

\* -------------------------------------------------------------- constants
SupportedRate == 44100
SupportedChannels == 2
NumWavebufs == 2

\* lines 175, 180, 181: 0x30, 0x18, 0x3F
DefaultPriority == 48
PrioMin == 24
PrioMax == 63

\* Inputs of n3ds_homebrew_init
SampleRates == {44100, 48000}
ChannelCounts == {1, 2}
BufferSizes == {2}
\* Result values of ndspInit: 0 is success, anything else a failure.
NdspResults == {0, 1}
\* the priority of the calling thread, the usual one of a main thread
MainPriorities == {DefaultPriority}

\* Results of n3ds_homebrew_init: line 128, line 132, and the 0 of line 187
INVALID_PARAMETER == "INVALID_PARAMETER"
UNKNOWN_ERROR == "UNKNOWN_ERROR"
SO_NO_ERROR == "SO_NO_ERROR"

BufIds == 0 .. (NumWavebufs - 1)

VARIABLES
  mBackendData,      \* aSoloud->mBackendData: "NULL" or "data"
  dataMem,           \* the N3Data record: "none", "live" or "freed"
  done,              \* data->done
  event,             \* data->event is signalled
  samplesPerWavebuf, \* data->samplesPerWavebuf
  numChannels,       \* data->numChannels
  audioBuffer,       \* data->audioBuffer: "null", "alloc" or "freed"
  wavebufsFreed,     \* free(data->wavebufs) has been executed
  status,            \* wavebufs[i]->status: "done" or "queued"
  nsamples,          \* wavebufs[i]->nsamples
  dirty,             \* buffer i holds rendered samples not yet flushed
  pc,                \* position of n3ds_thread
  buf_id,            \* its local buf_id
  pcMain,            \* position of the caller inside n3ds_cleanup
  chnQueue,          \* NDSP channel 0 queue of wave buffers (indices)
  cbData,            \* data pointer registered by ndspSetCallback
  cbBudget,          \* callbacks NDSP may still deliver for the last completion
  ndspInited,        \* ndspInit has succeeded at some point
  orphans,           \* sessions overwritten while still live
  crashed,           \* the process has died of undefined behaviour
  lastCall,          \* the last entry point called, its arguments and result
  prevOp,            \* the entry point called before that
  callTick,          \* flips on every call of an entry point
  lastSubmitted,     \* last index handed to ndspChnWaveBufAdd, -1 if none
  nSubmitted,        \* number of submissions of this session, saturating
  cbOnFreed,         \* the callback has run on a deleted N3Data
  mixed,             \* samples mixSigned16 wrote in this iteration, else -1
  flushed,           \* buffer and byte count of the last DSP_FlushDataCache
  callerPriority,    \* what svcGetThreadPriority returned for the caller
  priority,          \* the priority given to threadCreate
  wavebufs,          \* data->wavebufs[i]: "NULL" or "alloc"
  signalIssued       \* LightEvent_Signal has been called on data->event

sessionVars == <<dataMem, done, event, samplesPerWavebuf, numChannels,
                 audioBuffer, wavebufsFreed, status, nsamples, dirty>>
threadVars == <<pc, buf_id>>
hwVars == <<chnQueue, cbData, cbBudget, ndspInited>>
callVars == <<lastCall, prevOp, callTick>>
setupVars == <<callerPriority, priority, wavebufs>>
ghostVars == <<lastSubmitted, nSubmitted, cbOnFreed, mixed, flushed,
               setupVars, signalIssued>>
vars == <<mBackendData, sessionVars, threadVars, pcMain, hwVars, orphans,
          crashed, callVars, ghostVars>>

\* ndsp is the result of ndspInit, -1 when it was not called
NoCall ==
  [op |-> "none", rate |-> 0, buffer |-> 0, chans |-> 0, ndsp |-> -1,
   ret |-> "none"]

\* no DSP_FlushDataCache yet
NoFlush == [buf |-> -1, bytes |-> 0]

Init ==
  /\ mBackendData = "NULL"
  /\ dataMem = "none"
  /\ done = FALSE
  /\ event = FALSE
  /\ samplesPerWavebuf = 0
  /\ numChannels = 0
  /\ audioBuffer = "null"
  /\ wavebufsFreed = FALSE
  /\ status = [i \in BufIds |-> "done"]
  /\ nsamples = [i \in BufIds |-> 0]
  /\ dirty = [i \in BufIds |-> FALSE]
  /\ pc = "none"
  /\ buf_id = 0
  /\ pcMain = "idle"
  /\ chnQueue = <<>>
  /\ cbData = "NULL"
  /\ cbBudget = 0
  /\ ndspInited = FALSE
  /\ orphans = 0
  /\ crashed = FALSE
  /\ lastCall = NoCall
  /\ prevOp = "none"
  /\ callTick = 0
  /\ lastSubmitted = -1
  /\ nSubmitted = 0
  /\ cbOnFreed = FALSE
  /\ mixed = -1
  /\ flushed = NoFlush
  /\ callerPriority = DefaultPriority
  /\ priority = DefaultPriority
  /\ wavebufs = [i \in BufIds |-> "NULL"]
  /\ signalIssued = FALSE

\* ------------------------------------------------------------- helpers
\* C's logical negation of an integer: !x is true exactly when x is 0.
LogicalNot(x) == x = 0

\* faulty variant of ConfigValid: the channel count is not looked at
ConfigValid_RateOnly(aSamplerate, aChannels) ==
  aSamplerate = SupportedRate

\* line 127, negated: the configuration the backend accepts
ConfigValid(aSamplerate, aChannels) ==
  aSamplerate = SupportedRate /\ aChannels = SupportedChannels

\* faulty variant of Xor1: the index is not toggled
Xor1_Stuck(b) == b

\* line 117: buf_id ^= 1
Xor1(b) == IF b % 2 = 0 THEN b + 1 ELSE b - 1

\* nSubmitted counts up to MaxCount and stays there
Saturate(n) == IF n < MaxCount THEN n + 1 ELSE MaxCount

\* line 111: the sample counts a call of mixSigned16 for n samples may
\* leave written, all of them or one short
MixOutcomes(n) == {n - 1, n}

\* sizeof(int16_t)
SizeofInt16 == 2

\* faulty variant of FlushBytes: one channel's worth only
FlushBytes_NoChannels(n, ch) == n * SizeofInt16

\* line 115: data->samplesPerWavebuf * data->numChannels * sizeof(int16_t)
FlushBytes(n, ch) == n * ch * SizeofInt16

InQueue(q, b) == \E i \in 1 .. Len(q) : q[i] = b

\* ndspChnWaveBufAdd(0, buffer): the descriptor becomes queued and is linked
\* at the tail of channel 0's list; a descriptor is in the list at most once.
WaveBufAdd(q, b) == IF InQueue(q, b) THEN q ELSE Append(q, b)

\* faulty variant of ThreadPriority: no upper clamp
ThreadPriority_NoUpper(p) ==
  IF p - 1 < PrioMin THEN PrioMin ELSE p - 1

\* lines 178-181: priority -= 1, then the two clamps in the order written
ThreadPriority(p) ==
  LET dec == p - 1
      low == IF dec < PrioMin THEN PrioMin ELSE dec
  IN  IF low > PrioMax THEN PrioMax ELSE low

CallRecord(op, rate, buffer, chans, ndsp, ret) ==
  [op |-> op, rate |-> rate, buffer |-> buffer, chans |-> chans,
   ndsp |-> ndsp, ret |-> ret]

Called(rec) ==
  /\ lastCall' = rec
  /\ prevOp' = lastCall.op
  /\ callTick' = 1 - callTick

\* ------------------------------------------------- n3ds_homebrew_init
\* lines 127-128: unsupported configuration
InitInvalid(aSamplerate, aBuffer, aChannels) ==
  /\ ~ConfigValid(aSamplerate, aChannels)
  /\ Called(CallRecord("init", aSamplerate, aBuffer, aChannels, -1,
                       INVALID_PARAMETER))
  /\ UNCHANGED <<mBackendData, sessionVars, threadVars, pcMain, hwVars,
                 orphans, crashed, ghostVars>>

\* lines 131-132: if(!ndspInit()) return UNKNOWN_ERROR;
InitNdspBail(aSamplerate, aBuffer, aChannels, r) ==
  /\ ConfigValid(aSamplerate, aChannels)
  /\ LogicalNot(r)
  /\ ndspInited' = TRUE
  /\ Called(CallRecord("init", aSamplerate, aBuffer, aChannels, r,
                       UNKNOWN_ERROR))
  /\ UNCHANGED <<mBackendData, sessionVars, threadVars, pcMain, chnQueue,
                 cbData, cbBudget, orphans, crashed, ghostVars>>

\* lines 135-158: the write through the NULL descriptor pointer kills the
\* process before the function returns
InitCrash(aSamplerate, aChannels, r) ==
  /\ ConfigValid(aSamplerate, aChannels)
  /\ ~LogicalNot(r)
  /\ crashed' = TRUE
  /\ UNCHANGED <<mBackendData, sessionVars, threadVars, pcMain, hwVars,
                 orphans, callVars, ghostVars>>

\* lines 135-187
InitProceed(aSamplerate, aBuffer, aChannels, r, ev, p) ==
  /\ ConfigValid(aSamplerate, aChannels)
  /\ ~LogicalNot(r)
  /\ IF mBackendData = "data"
       THEN orphans < MaxOrphans /\ orphans' = orphans + 1
       ELSE orphans' = orphans
  \* 135-139 reset and configure channel 0
  /\ chnQueue' = <<>>
  \* 142-143 new N3Data, zero filled; the event is left as memset made it
  /\ dataMem' = "live"
  /\ done' = FALSE
  /\ event' = ev
  \* 149-153
  /\ audioBuffer' = "alloc"
  /\ samplesPerWavebuf' = aBuffer
  /\ numChannels' = aChannels
  \* 143 memset leaves both descriptor pointers null, nothing assigns them
  /\ wavebufs' = [i \in BufIds |-> "NULL"]
  \* 156-162
  /\ status' = [i \in BufIds |-> "done"]
  /\ nsamples' = [i \in BufIds |-> 0]
  /\ dirty' = [i \in BufIds |-> FALSE]
  /\ wavebufsFreed' = FALSE
  \* 164
  /\ mBackendData' = "data"
  \* 170
  /\ cbData' = "data"
  \* 175-181
  /\ callerPriority' = p
  /\ priority' = ThreadPriority(p)
  \* 183 threadCreate; 104 int buf_id = 0
  /\ pc' = "check"
  /\ buf_id' = 0
  /\ lastSubmitted' = -1
  /\ nSubmitted' = 0
  /\ mixed' = -1
  /\ flushed' = NoFlush
  /\ signalIssued' = FALSE
  /\ Called(CallRecord("init", aSamplerate, aBuffer, aChannels, r,
                       SO_NO_ERROR))
  /\ UNCHANGED <<pcMain, cbBudget, ndspInited, crashed, cbOnFreed>>

CallerIdle == ~crashed /\ pcMain = "idle"

n3ds_homebrew_init ==
  \/ \E aSamplerate \in SampleRates, aChannels \in ChannelCounts,
        aBuffer \in BufferSizes :
       CallerIdle /\ InitInvalid(aSamplerate, aBuffer, aChannels)
  \/ \E aSamplerate \in SampleRates, aChannels \in ChannelCounts,
        aBuffer \in BufferSizes, r \in NdspResults :
       CallerIdle /\ InitNdspBail(aSamplerate, aBuffer, aChannels, r)
  \/ \E aSamplerate \in SampleRates, aChannels \in ChannelCounts,
        r \in NdspResults :
       CallerIdle /\ InitCrash(aSamplerate, aChannels, r)
  \/ \E aSamplerate \in SampleRates, aChannels \in ChannelCounts,
        aBuffer \in BufferSizes, r \in NdspResults, ev \in BOOLEAN,
        p \in MainPriorities :
       CallerIdle /\ InitProceed(aSamplerate, aBuffer, aChannels, r, ev, p)

\* --------------------------------------------------------- n3ds_cleanup
\* faulty variant of HasBackendData: the NULL test is missing
HasBackendData_Always == TRUE

\* line 79: is there a session to tear down
HasBackendData == mBackendData # "NULL"

\* lines 79-80
CleanupNoop ==
  /\ ~crashed
  /\ pcMain = "idle"
  /\ ~HasBackendData
  /\ Called(CallRecord("cleanup_noop", 0, 0, 0, -1, "none"))
  /\ UNCHANGED <<mBackendData, sessionVars, threadVars, pcMain, hwVars,
                 orphans, crashed, ghostVars>>

\* faulty variant of CleanupEnter: done is not set
CleanupEnter_NoFlag ==
  /\ ~crashed
  /\ pcMain = "idle"
  /\ HasBackendData
  /\ pcMain' = "signal"
  /\ Called(CallRecord("cleanup", 0, 0, 0, -1, "none"))
  /\ UNCHANGED <<mBackendData, sessionVars, threadVars, hwVars, orphans,
                 crashed, ghostVars>>

\* lines 79-85
CleanupEnter ==
  /\ ~crashed
  /\ pcMain = "idle"
  /\ HasBackendData
  /\ done' = TRUE
  /\ pcMain' = "signal"
  /\ Called(CallRecord("cleanup", 0, 0, 0, -1, "none"))
  /\ UNCHANGED <<mBackendData, dataMem, event, samplesPerWavebuf, numChannels,
                 audioBuffer, wavebufsFreed, status, nsamples, dirty,
                 threadVars, hwVars, orphans, crashed, ghostVars>>

\* faulty variant of CleanupSignal: the LightEvent_Signal is missing
CleanupSignal_NoWake ==
  /\ ~crashed
  /\ pcMain = "signal"
  /\ pcMain' = "join"
  /\ UNCHANGED <<mBackendData, sessionVars, threadVars, hwVars, orphans,
                 crashed, callVars, ghostVars>>

\* line 86
CleanupSignal ==
  /\ ~crashed
  /\ pcMain = "signal"
  /\ event' = TRUE
  /\ signalIssued' = TRUE
  /\ pcMain' = "join"
  /\ UNCHANGED <<mBackendData, dataMem, done, samplesPerWavebuf, numChannels,
                 audioBuffer, wavebufsFreed, status, nsamples, dirty,
                 threadVars, hwVars, orphans, crashed, callVars,
                 lastSubmitted, nSubmitted, cbOnFreed, mixed, flushed,
                 setupVars>>

\* faulty variant of ThreadHasExited: threadJoin with a zero timeout
ThreadHasExited_NoWait == TRUE

\* line 88: threadJoin returns once n3ds_thread has returned
ThreadHasExited == pc = "exited"

CleanupJoin ==
  /\ ~crashed
  /\ pcMain = "join"
  /\ ThreadHasExited
  /\ pcMain' = "free_wavebufs"
  /\ UNCHANGED <<mBackendData, sessionVars, threadVars, hwVars, orphans,
                 crashed, callVars, ghostVars>>

\* line 94: free() of the address of a member array
CleanupFreeWavebufs ==
  /\ ~crashed
  /\ pcMain = "free_wavebufs"
  /\ \/ /\ crashed' = TRUE
        /\ UNCHANGED <<wavebufsFreed, pcMain>>
     \/ /\ wavebufsFreed' = TRUE
        /\ pcMain' = "free_audio"
        /\ UNCHANGED crashed
  /\ UNCHANGED <<mBackendData, dataMem, done, event, samplesPerWavebuf,
                 numChannels, audioBuffer, status, nsamples, dirty,
                 threadVars, hwVars, orphans, callVars, ghostVars>>

\* line 95
CleanupFreeAudio ==
  /\ ~crashed
  /\ pcMain = "free_audio"
  /\ audioBuffer' = "freed"
  /\ pcMain' = "delete"
  /\ UNCHANGED <<mBackendData, dataMem, done, event, samplesPerWavebuf,
                 numChannels, wavebufsFreed, status, nsamples, dirty,
                 threadVars, hwVars, orphans, crashed, callVars, ghostVars>>

\* line 97
CleanupDelete ==
  /\ ~crashed
  /\ pcMain = "delete"
  /\ dataMem' = "freed"
  /\ pcMain' = "clear"
  /\ UNCHANGED <<mBackendData, done, event, samplesPerWavebuf, numChannels,
                 audioBuffer, wavebufsFreed, status, nsamples, dirty,
                 threadVars, hwVars, orphans, crashed, callVars, ghostVars>>

\* line 98
CleanupClear ==
  /\ ~crashed
  /\ pcMain = "clear"
  /\ mBackendData' = "NULL"
  /\ pcMain' = "idle"
  /\ UNCHANGED <<sessionVars, threadVars, hwVars, orphans, crashed, callVars,
                 ghostVars>>

n3ds_cleanup ==
  \/ CleanupNoop
  \/ CleanupEnter
  \/ CleanupSignal
  \/ CleanupJoin
  \/ CleanupFreeWavebufs
  \/ CleanupFreeAudio
  \/ CleanupDelete
  \/ CleanupClear

\* ---------------------------------------------------------- n3ds_thread
ThreadRuns == ~crashed /\ pc \notin {"none", "exited"}

\* faulty variant of ThreadCheck: done is not looked at
ThreadCheck_NoQuit ==
  /\ ThreadRuns
  /\ pc = "check"
  /\ pc' = "render"
  /\ UNCHANGED <<mBackendData, sessionVars, buf_id, pcMain, hwVars, orphans,
                 crashed, callVars, ghostVars>>

\* line 106: while (!data->done)
ThreadCheck ==
  /\ ThreadRuns
  /\ pc = "check"
  /\ pc' = IF done THEN "exited" ELSE "render"
  /\ UNCHANGED <<mBackendData, sessionVars, buf_id, pcMain, hwVars, orphans,
                 crashed, callVars, ghostVars>>

\* faulty variant of ThreadRender: a short render ends the thread
ThreadRender_Checked ==
  /\ ThreadRuns
  /\ pc = "render"
  /\ \E n \in MixOutcomes(samplesPerWavebuf) :
       /\ mixed' = n
       /\ pc' = IF n < samplesPerWavebuf THEN "exited" ELSE "submit"
  /\ dirty' = [dirty EXCEPT ![buf_id] = TRUE]
  /\ UNCHANGED <<mBackendData, dataMem, done, event, samplesPerWavebuf,
                 numChannels, audioBuffer, wavebufsFreed, status, nsamples,
                 buf_id, pcMain, hwVars, orphans, crashed, callVars,
                 lastSubmitted, nSubmitted, cbOnFreed, flushed, setupVars,
                 signalIssued>>

\* lines 107-111: mixSigned16 fills wavebufs[buf_id]; it returns nothing,
\* so whatever it wrote the thread goes on to line 112
ThreadRender ==
  /\ ThreadRuns
  /\ pc = "render"
  /\ \E n \in MixOutcomes(samplesPerWavebuf) : mixed' = n
  /\ dirty' = [dirty EXCEPT ![buf_id] = TRUE]
  /\ pc' = "submit"
  /\ UNCHANGED <<mBackendData, dataMem, done, event, samplesPerWavebuf,
                 numChannels, audioBuffer, wavebufsFreed, status, nsamples,
                 buf_id, pcMain, hwVars, orphans, crashed, callVars,
                 lastSubmitted, nSubmitted, cbOnFreed, flushed, setupVars,
                 signalIssued>>

\* lines 112-113: buffer->nsamples = ...; ndspChnWaveBufAdd(0, buffer)
ThreadSubmit ==
  /\ ThreadRuns
  /\ pc = "submit"
  /\ nsamples' = [nsamples EXCEPT ![buf_id] = samplesPerWavebuf]
  /\ status' = [status EXCEPT ![buf_id] = "queued"]
  /\ chnQueue' = WaveBufAdd(chnQueue, buf_id)
  /\ lastSubmitted' = buf_id
  /\ nSubmitted' = Saturate(nSubmitted)
  /\ pc' = "flush"
  /\ UNCHANGED <<mBackendData, dataMem, done, event, samplesPerWavebuf,
                 numChannels, audioBuffer, wavebufsFreed, dirty, buf_id,
                 pcMain, cbData, cbBudget, ndspInited, orphans, crashed,
                 callVars, cbOnFreed, mixed, flushed, setupVars,
                 signalIssued>>

\* lines 114-117: DSP_FlushDataCache(...); buf_id ^= 1
ThreadFlush ==
  /\ ThreadRuns
  /\ pc = "flush"
  /\ dirty' = [dirty EXCEPT ![buf_id] = FALSE]
  /\ flushed' = [buf |-> buf_id,
                 bytes |-> FlushBytes(samplesPerWavebuf, numChannels)]
  /\ buf_id' = Xor1(buf_id)
  /\ mixed' = -1
  /\ pc' = "wait"
  /\ UNCHANGED <<mBackendData, dataMem, done, event, samplesPerWavebuf,
                 numChannels, audioBuffer, wavebufsFreed, status, nsamples,
                 pcMain, hwVars, orphans, crashed, callVars, lastSubmitted,
                 nSubmitted, cbOnFreed, setupVars, signalIssued>>

\* line 120: LightEvent_Wait returns when the event is signalled and clears it
ThreadWait ==
  /\ ThreadRuns
  /\ pc = "wait"
  /\ event
  /\ event' = FALSE
  /\ pc' = "check"
  /\ UNCHANGED <<mBackendData, dataMem, done, samplesPerWavebuf, numChannels,
                 audioBuffer, wavebufsFreed, status, nsamples, dirty, buf_id,
                 pcMain, hwVars, orphans, crashed, callVars, ghostVars>>

n3ds_thread ==
  \/ ThreadCheck
  \/ ThreadRender
  \/ ThreadSubmit
  \/ ThreadFlush
  \/ ThreadWait

\* ------------------------------------------------------------- NDSP side
\* NDSP finishes playing the wave buffer at the head of channel 0's queue and
\* marks it NDSP_WBUF_DONE (the state line 159 gives an idle buffer); the
\* sound frame callback is then due.
NdspComplete ==
  /\ ~crashed
  /\ chnQueue # <<>>
  /\ status' = [status EXCEPT ![Head(chnQueue)] = "done"]
  /\ chnQueue' = Tail(chnQueue)
  /\ cbBudget' = MaxCallbacksPerCompletion
  /\ UNCHANGED <<mBackendData, dataMem, done, event, samplesPerWavebuf,
                 numChannels, audioBuffer, wavebufsFreed, nsamples, dirty,
                 threadVars, pcMain, cbData, ndspInited, orphans, crashed,
                 callVars, ghostVars>>

\* faulty variant of CallbackBody: the quit test is inverted
CallbackBody_Inverted(quit) ==
  /\ event' = IF quit THEN TRUE ELSE event
  /\ signalIssued' = IF quit THEN TRUE ELSE signalIssued
  /\ UNCHANGED <<crashed>>

\* lines 71-75 on a live N3Data
CallbackBody(quit) ==
  /\ event' = IF quit THEN event ELSE TRUE
  /\ signalIssued' = IF quit THEN signalIssued ELSE TRUE
  /\ UNCHANGED <<crashed>>

\* lines 67-76. On a deleted N3Data the read of data->done yields anything,
\* and the process may die instead.
n3ds_audioCallback ==
  /\ ~crashed
  /\ cbData # "NULL"
  /\ cbBudget > 0
  /\ cbBudget' = cbBudget - 1
  /\ IF dataMem = "freed"
       THEN /\ cbOnFreed' = TRUE
            /\ \/ \E quit \in BOOLEAN : CallbackBody(quit)
               \/ crashed' = TRUE /\ UNCHANGED <<event, signalIssued>>
       ELSE /\ CallbackBody(done)
            /\ UNCHANGED cbOnFreed
  /\ UNCHANGED <<mBackendData, dataMem, done, samplesPerWavebuf, numChannels,
                 audioBuffer, wavebufsFreed, status, nsamples, dirty,
                 threadVars, pcMain, chnQueue, cbData, ndspInited, orphans,
                 callVars, lastSubmitted, nSubmitted, mixed, flushed,
                 setupVars>>

\* ---------------------------------------------------------- specification
Next ==
  \/ n3ds_homebrew_init
  \/ n3ds_cleanup
  \/ n3ds_thread
  \/ NdspComplete
  \/ n3ds_audioCallback

Spec == Init /\ [][Next]_vars

\* The scheduler is fair to the audio thread and to the caller inside
\* n3ds_cleanup; nothing is assumed of NDSP.
FairSpec ==
  /\ Spec
  /\ WF_vars(n3ds_thread)
  /\ WF_vars(CleanupSignal)
  /\ WF_vars(CleanupJoin)

\* NDSP keeps playing what is queued and delivers the callback that is due;
\* the scheduler is fair to the audio thread.
LiveSpec ==
  /\ Spec
  /\ WF_vars(n3ds_thread)
  /\ WF_vars(NdspComplete)
  /\ WF_vars(n3ds_audioCallback)

\* The life of one stream: n3ds_homebrew_init creates a session once, and its
\* event starts unsignalled.
FirstInit ==
  /\ n3ds_homebrew_init
  /\ lastCall'.ret = SO_NO_ERROR => (dataMem = "none" /\ ~event')

OneStreamNext ==
  \/ FirstInit
  \/ n3ds_cleanup
  \/ n3ds_thread
  \/ NdspComplete
  \/ n3ds_audioCallback

OneStreamSpec == Init /\ [][OneStreamNext]_vars

\* One session at a time, created with any aBuffer up to MaxBuffer.
SizedInit ==
  \E aBuffer \in 1 .. MaxBuffer, r \in NdspResults :
    /\ CallerIdle
    /\ dataMem \in {"none", "freed"}
    /\ mBackendData = "NULL"
    /\ InitProceed(SupportedRate, aBuffer, SupportedChannels, r, FALSE,
                   DefaultPriority)

SizesNext ==
  \/ SizedInit
  \/ n3ds_cleanup
  \/ n3ds_thread
  \/ NdspComplete
  \/ n3ds_audioCallback

SizesSpec == Init /\ [][SizesNext]_vars

\* Sessions created by callers of any priority up to MaxPriority, and their
\* threads.
PriorityInit ==
  \E p \in 0 .. MaxPriority, ev \in BOOLEAN, r \in NdspResults :
    /\ CallerIdle
    /\ InitProceed(SupportedRate, 2, SupportedChannels, r, ev, p)

PriorityNext ==
  \/ PriorityInit
  \/ n3ds_thread

PrioritySpec == Init /\ [][PriorityNext]_vars

\* ------------------------------------------------------------ step kinds
ApiCall == callTick' # callTick
SubmitStep == pc = "submit" /\ pc' = "flush"
FlushStep == pc = "flush" /\ pc' = "wait"
CallbackStep == cbBudget' = cbBudget - 1
AnyFreed == wavebufsFreed \/ audioBuffer = "freed" \/ dataMem = "freed"
AllButCall == <<mBackendData, sessionVars, threadVars, pcMain, hwVars,
                orphans, crashed, ghostVars>>

\* ================================================================ claims

\* C1: the buffer the audio thread is rendering into is never queued to or
\* being played by NDSP, for every interleaving in which the callback fires
\* once or more per finished buffer.
C1_NoConcurrentWrite == pc = "render" => status[buf_id] # "queued"

\* C2: the indices handed to ndspChnWaveBufAdd by one audio thread are
\* 0,1,0,1,... starting at 0: every submission is of index 0 when it is the
\* first and of the other index than the previous submission otherwise.
C2_StrictAlternation ==
  [][SubmitStep =>
       lastSubmitted' = IF lastSubmitted = -1 THEN 0 ELSE 1 - lastSubmitted]_vars

C2_Witness == nSubmitted >= 3 /\ lastSubmitted = 0 /\ pc = "wait"

\* C3: once n3ds_cleanup has set done and signalled the event, the audio
\* thread exits and threadJoin returns, under a fair scheduler.
C3_ShutdownTerminates ==
  (pcMain = "join") ~> (pcMain = "free_wavebufs" /\ pc = "exited")

C3_Witness ==
  pcMain = "free_wavebufs" /\ pc = "exited" /\ done /\ nSubmitted >= 1

\* C4: no buffer is handed to ndspChnWaveBufAdd once done is true.
C4_NoSubmitAfterShutdown == [][SubmitStep => ~done]_vars

\* C5: the N3Data record is deleted only after the audio thread has been
\* joined and NDSP has been told to stop calling back, so the callback never
\* runs on a deleted record.
C5_SessionOutlivesCallbacks ==
  /\ dataMem = "freed" => (pc = "exited" /\ cbData = "NULL")
  /\ ~cbOnFreed

\* C6: threadJoin has returned before anything is released; the descriptors
\* and the sample storage go first, then the record, then mBackendData is
\* cleared; the audio thread is never live while any of them is freed.
C6_JoinBeforeFree ==
  /\ AnyFreed => pc = "exited"
  /\ pcMain \in {"free_wavebufs", "free_audio", "delete", "clear"} =>
       pc = "exited"
  /\ dataMem = "freed" => (wavebufsFreed /\ audioBuffer = "freed")
  /\ (mBackendData = "NULL" /\ dataMem # "none") => dataMem = "freed"

C6_Witness ==
  dataMem = "freed" /\ mBackendData = "NULL" /\ pcMain = "idle" /\
  nSubmitted >= 1

\* C7: n3ds_cleanup with no session changes nothing, and a cleanup that has
\* returned leaves no session, so a second call in a row joins and frees
\* nothing.
C7_CleanupIdempotent ==
  /\ [][(ApiCall /\ mBackendData = "NULL" /\
         lastCall'.op \in {"cleanup", "cleanup_noop"})
          => (lastCall'.op = "cleanup_noop" /\ UNCHANGED AllButCall)]_vars
  /\ []((pcMain = "idle" /\ lastCall.op = "cleanup") => mBackendData = "NULL")

C7_Witness ==
  lastCall.op = "cleanup_noop" /\ prevOp = "cleanup" /\ dataMem = "freed"

\* C8: a callback invoked while done is true signals nothing and changes no
\* session state; invoked while done is false it signals the event.
C8_CallbackRespectsDone ==
  [][CallbackStep =>
       /\ UNCHANGED <<mBackendData, dataMem, done, samplesPerWavebuf,
                      numChannels, audioBuffer, wavebufsFreed, status,
                      nsamples, dirty, threadVars, chnQueue, crashed>>
       /\ done => event' = event
       /\ ~done => event']_vars

\* C9: n3ds_homebrew_init with aSamplerate # 44100 or aChannels # 2 returns
\* INVALID_PARAMETER and leaves every part of the state as it was.
C9_InvalidConfigNoSideEffects ==
  [][(ApiCall /\ lastCall'.op = "init" /\
      (lastCall'.rate # SupportedRate \/ lastCall'.chans # SupportedChannels))
       => (lastCall'.ret = INVALID_PARAMETER /\ UNCHANGED AllButCall)]_vars

C9_Witness ==
  lastCall.op = "init" /\ lastCall.rate = 48000 /\
  lastCall.ret = INVALID_PARAMETER /\ dataMem = "live"

\* C10: with a valid configuration n3ds_homebrew_init returns UNKNOWN_ERROR
\* exactly when ndspInit fails (non-zero result), then with no side effect;
\* when ndspInit succeeds (zero) it creates the session, starts the audio
\* thread and returns success.
C10_UnknownErrorIffNdspFails ==
  [][(ApiCall /\ lastCall'.op = "init" /\
      lastCall'.rate = SupportedRate /\ lastCall'.chans = SupportedChannels)
       => /\ (lastCall'.ret = UNKNOWN_ERROR) <=> (lastCall'.ndsp # 0)
          /\ lastCall'.ndsp # 0 => UNCHANGED <<mBackendData, sessionVars,
                                               threadVars, cbData>>
          /\ lastCall'.ndsp = 0 =>
               (lastCall'.ret = SO_NO_ERROR /\ dataMem' = "live" /\
                mBackendData' = "data" /\ pc' = "check")]_vars

\* C11: in every iteration the cache flush of a buffer comes after its render
\* and before its submission: no buffer is handed to ndspChnWaveBufAdd while
\* its latest render is still unflushed.
C11_FlushBeforeSubmit == [][SubmitStep => ~dirty[buf_id]]_vars

\* C12: while no shutdown is requested, NDSP finishes what is queued and the
\* callback is delivered, the audio thread submits again and again; a thread
\* blocked in LightEvent_Wait always has a buffer queued or a callback due,
\* so no wake-up is lost.
C12_NeverStalls ==
  /\ [](( dataMem = "live" /\ ~done /\ ~crashed /\ pc = "wait" /\ ~event)
          => (chnQueue # <<>> \/ cbBudget > 0))
  /\ (<>[](dataMem = "live" /\ ~done /\ ~crashed)) => []<>(pc = "flush")

C12_Witness ==
  dataMem = "live" /\ ~done /\ pc = "wait" /\ event /\ cbBudget = 0 /\
  chnQueue = <<>> /\ nSubmitted >= 2

\* a step of n3ds_thread
ThreadStep == pc \notin {"none", "exited"} /\ pc' # pc /\ ~ApiCall

\* C13 as stated: a render that produced fewer samples than
\* samplesPerWavebuf is never submitted.
C13_NoPartialSubmit == [][SubmitStep => mixed >= samplesPerWavebuf]_vars

\* C13: the thread does not look at what the mixer produced.  Every render,
\* short or not, is followed by the submission of that buffer with nsamples
\* set to samplesPerWavebuf, and no step of the thread starts the cleanup,
\* sets done or releases the session.
C13_ShortRenderSubmitted ==
  /\ [][(ThreadStep /\ pc = "render") => pc' = "submit"]_vars
  /\ [][SubmitStep => /\ nsamples'[buf_id] = samplesPerWavebuf
                      /\ status'[buf_id] = "queued"
                      /\ lastSubmitted' = buf_id]_vars
  /\ [][ThreadStep => UNCHANGED <<pcMain, mBackendData, dataMem, done,
                                  audioBuffer>>]_vars

C13_Witness ==
  /\ pc = "flush"
  /\ mixed >= 0 /\ mixed < samplesPerWavebuf
  /\ lastSubmitted = buf_id
  /\ status[buf_id] = "queued"
  /\ nsamples[buf_id] = samplesPerWavebuf
  /\ pcMain = "idle" /\ ~done

\* C14: a successful init stores its aBuffer and aChannels, nothing else
\* ever changes them, every submission is of the buffer just rendered with
\* nsamples equal to aBuffer, and the flush that goes with it covers
\* aBuffer * 2 * 2 bytes of that same buffer.
C14_SubmissionSizes ==
  /\ [][(ApiCall /\ lastCall'.op = "init" /\ lastCall'.ret = SO_NO_ERROR)
          => /\ samplesPerWavebuf' = lastCall'.buffer
             /\ numChannels' = lastCall'.chans
             /\ lastCall'.chans = 2]_vars
  /\ [][~(ApiCall /\ lastCall'.op = "init")
          => UNCHANGED <<samplesPerWavebuf, numChannels>>]_vars
  /\ [][SubmitStep => /\ dirty[buf_id]
                      /\ lastSubmitted' = buf_id
                      /\ nsamples'[buf_id] = samplesPerWavebuf]_vars
  /\ [][FlushStep => /\ flushed'.buf = lastSubmitted
                     /\ flushed'.bytes = samplesPerWavebuf * 2 * 2]_vars

C14_Witness ==
  /\ lastCall.op = "init" /\ lastCall.buffer = 3
  /\ nSubmitted >= 2
  /\ pc = "wait"
  /\ lastSubmitted = 1 /\ nsamples[1] = 3
  /\ flushed = [buf |-> 1, bytes |-> 3 * 2 * 2]

\* C15: whatever priority p the caller has, the thread is created with
\* p - 1 clamped into 0x18 .. 0x3F.
C15_PriorityClamped ==
  /\ [][(ApiCall /\ lastCall'.op = "init" /\ lastCall'.ret = SO_NO_ERROR)
          => LET p == callerPriority'
             IN  /\ (p - 1 < 24) => priority' = 24
                 /\ (p - 1 > 63) => priority' = 63
                 /\ (p - 1 >= 24 /\ p - 1 <= 63) => priority' = p - 1]_vars
  /\ [](pc # "none" => priority \in 24 .. 63)

C15_Witness ==
  /\ pc = "flush"
  /\ callerPriority = 70
  /\ priority = 63

C17_CheckBeforeRender ==
  /\ [][(ThreadStep /\ pc' = "render") => (pc = "check" /\ ~done)]_vars
  /\ [][(ThreadStep /\ pc' = "submit") => pc = "render"]_vars
  /\ [][(ThreadStep /\ pc = "wait") => pc' = "check"]_vars
  /\ [][(ThreadStep /\ pc = "check" /\ done)
          => /\ pc' = "exited"
             /\ UNCHANGED <<mixed, nSubmitted, lastSubmitted, chnQueue,
                            status, nsamples, dirty>>]_vars
  /\ [][(pc = "exited" /\ ~ApiCall) => pc' = "exited"]_vars
  /\ [](pc = "exited" => done)

\* the shutdown came before the first check: nothing rendered, nothing
\* submitted
C17_Witness ==
  pc = "exited" /\ done /\ mixed = -1 /\ nSubmitted = 0 /\ chnQueue = <<>>

\* C18: done is false when a session is created, only the entry of
\* n3ds_cleanup sets it, nothing clears it while the session lasts, and the
\* LightEvent_Signal of n3ds_cleanup is issued with done already true, which
\* it stays until the cleanup has finished.
C18_DoneMonotonic ==
  /\ [][(ApiCall /\ lastCall'.op = "init" /\ lastCall'.ret = SO_NO_ERROR)
          => ~done']_vars
  /\ [][(done /\ ~done')
          => (ApiCall /\ lastCall'.op = "init" /\
              lastCall'.ret = SO_NO_ERROR)]_vars
  /\ [][(~done /\ done')
          => (ApiCall /\ lastCall'.op = "cleanup" /\ pcMain' = "signal")]_vars
  /\ [][(pcMain = "signal" /\ pcMain' = "join") => (done /\ done' /\ event')]_vars
  /\ [](pcMain # "idle" => done)

\* the thread has come back from its first wait on the signal of
\* n3ds_cleanup and is about to read done
C18_Witness ==
  /\ pcMain = "join" /\ done
  /\ pc = "check" /\ ~event
  /\ nSubmitted = 1 /\ chnQueue = <<0>> /\ status[0] = "queued"

\* C19: LightEvent_Wait in the thread of a session returns only after a
\* LightEvent_Signal on that session's event, by the callback or by
\* n3ds_cleanup.
C19_WaitNeedsSignal ==
  [][(ThreadStep /\ pc = "wait") => signalIssued]_vars

\* C20: no session is ever left behind, live and with its thread running,
\* by an init that replaces it as the backend data.
C20_AtMostOneSession == orphans = 0

====
